---- MODULE Spec2Model ----
(***************************************************************************)
(* Verification model of the bank-statement analyser:                      *)
(*   - analyzeStatement (services/geminiService.ts): credential check,     *)
(*     retry loop with exponential backoff, error classification;          *)
(*   - MonthlyAnalysisTable (components/MonthlyAnalysisTable.tsx): the     *)
(*     monthly pivot and the summary statistics of the PDF report;         *)
(*   - App, FileUpload and ResultsTable: the session that selects a file,  *)
(*     runs the analysis and holds and edits its results.                  *)
(*                                                                         *)
(* JavaScript strings that the code inspects character by character (the   *)
(* API key, dates, descriptions) are sequences of one-character strings.   *)
(* Error messages are sequences of text fragments; msg.includes(m) is      *)
(* "m is one of the fragments".                                            *)
(***************************************************************************)
EXTENDS Integers, Sequences, FiniteSets, TLC

VARIABLES
    env,          \* the hosting environment's configuration (API key sources)
    pc,           \* position of analyzeStatement: idle / calling / waiting / done
    attempt,      \* loop variable `attempt`
    lastError,    \* `lastError` (its message), NoError before the first catch
    calls,        \* number of ai.models.generateContent calls issued
    waits,        \* the durations (ms) passed to wait(), in order
    trace,        \* what each finished call produced (observer of the mock service)
    outcome,      \* "pending" | "resolved" | "rejected": the returned promise
    result,       \* resolved value (parsed JSON) or rejection message
    entries,      \* props.entries of MonthlyAnalysisTable
    rendered,     \* TRUE once the component body ran for `entries`
    analysis,     \* `analysis`: own keys of the pivot object
    inherited,    \* writes that landed on inherited members of `analysis`
    monthlyTotals,\* `monthlyTotals`
    allMonths,    \* `allMonths`, in insertion order
    sortedMonths,
    sortedDescriptions,
    report,       \* summary computed by handleGeneratePdf, NoReport before
    app,          \* the useState values of App, by name
    isDragging,   \* FileUpload: `isDragging`
    isEditing,    \* ResultsTable: `isEditing`
    editedEntries,\* ResultsTable: `editedEntries` (the draft)
    previewReads, \* files whose preview FileReader has not finished
    task,         \* the running handleAnalyzeClick: its position and its `file`
    inFlight,     \* number of handleAnalyzeClick calls that have not finished
    mimeType,     \* the mimeType argument of the analyzeStatement call
    current,      \* observer: nothing was selected, cleared or started
                  \* since the last extraction stored its list
    edits         \* observer: changes made to the draft since it was mounted

clientVars == <<env, pc, attempt, lastError, calls, waits, trace, outcome, result>>
aggVars == <<entries, rendered, analysis, inherited, monthlyTotals, allMonths,
             sortedMonths, sortedDescriptions, report>>
appVars == <<app, isDragging, isEditing, editedEntries, previewReads, task,
             inFlight, mimeType, current, edits>>
vars == <<clientVars, aggVars, appVars>>

-----------------------------------------------------------------------------
(* Strings as character sequences *)

IsSpace(c) == c = " "

RECURSIVE TrimStart(_)
TrimStart(s) == IF s # <<>> /\ IsSpace(Head(s)) THEN TrimStart(Tail(s)) ELSE s

RECURSIVE TrimEnd(_)
TrimEnd(s) ==
    IF s # <<>> /\ IsSpace(s[Len(s)]) THEN TrimEnd(SubSeq(s, 1, Len(s) - 1)) ELSE s

\* String.prototype.trim
Trim(s) == TrimEnd(TrimStart(s))

IsQuote(c) == c \in {"\"", "'"}

\* s.replace(/^["']|["']$/g, ''): one quote at the start and one at the end
StripQuotes(s) ==
    LET a == IF s # <<>> /\ IsQuote(Head(s)) THEN Tail(s) ELSE s
        \* the $ alternative matches a quote that is still there after the ^ match
        b == IF a # <<>> /\ IsQuote(a[Len(a)]) THEN SubSeq(a, 1, Len(a) - 1) ELSE a
    IN b

\* String.prototype.startsWith
StartsWith(s, p) == Len(s) >= Len(p) /\ SubSeq(s, 1, Len(p)) = p

\* String.prototype.substring(0, n)
Substring0(s, n) == SubSeq(s, 1, IF Len(s) < n THEN Len(s) ELSE n)

KeyPrefix == <<"A", "I", "z", "a">>

-----------------------------------------------------------------------------
(* The environment *)

GoodKey == <<"A", "I", "z", "a", "K">>

\* raw values an environment variable may hold; <<>> is unset / empty
KeySamples ==
    { <<>>,
      <<" ">>,
      <<"\"">>,
      <<"'", "'">>,
      <<"\"", " ", "\"">>,
      <<"'", "\"", "\"", "'">>,
      GoodKey,
      <<" ">> \o GoodKey \o <<" ">>,
      <<"\"">> \o GoodKey \o <<"\"">>,
      <<" ", "'">> \o GoodKey \o <<"'", " ">>,
      <<"\"", " ">> \o GoodKey \o <<"\"">>,
      <<"'">> \o GoodKey,
      <<"A", "I", "z">>,
      <<"a", "I", "z", "a", "K">>,
      <<"p", "r", "o", "j", "-", "1">> }

FallbackKeys == { <<>>, GoodKey, <<"p", "r", "o", "j", "-", "1">> }

\* meta: import.meta.env.VITE_API_KEY; proc: process.env exists;
\* pv: process.env.VITE_API_KEY; pa: process.env.API_KEY
EnvSamples ==
    { [meta |-> k, proc |-> TRUE, pv |-> <<>>, pa |-> <<>>] : k \in KeySamples }
    \cup
    { [meta |-> m, proc |-> p, pv |-> a, pa |-> b] :
        m \in {<<>>, GoodKey}, p \in BOOLEAN, a \in FallbackKeys, b \in FallbackKeys }

\* lines 47-58
RawApiKey(e) ==
    IF e.meta # <<>> THEN e.meta
    ELSE IF e.proc THEN (IF e.pv # <<>> THEN e.pv ELSE IF e.pa # <<>> THEN e.pa ELSE <<>>)
    ELSE <<>>

CleanApiKey_NoTrim(raw) == IF raw # <<>> THEN StripQuotes(raw) ELSE <<>>

\* line 61
CleanApiKey(raw) == IF raw # <<>> THEN StripQuotes(Trim(raw)) ELSE <<>>

-----------------------------------------------------------------------------
(* Error messages *)

AuthMarkers == {"400", "API_KEY_INVALID", "INVALID_ARGUMENT"}
SafetyMarkers == {"SAFETY"}
TransientMarkers == {"503", "overloaded", "429"}

\* String.prototype.includes on a message
Includes(msg, m) == \E i \in 1..Len(msg) : msg[i] = m

MissingKeyMsg == <<"CHAVE DE API NAO ENCONTRADA.">>
InvalidKeyMsg(apiKey) ==
    <<"A chave de API configurada parece invalida (nao comeca com 'AIza').">>
        \o Substring0(apiKey, 5)
AuthMsg == <<"Erro ", "400", " (API Key Invalida ou Bloqueada).">>
SafetyMsg == <<"A analise foi bloqueada por politicas de seguranca do Google.">>
StructureMsg ==
    <<"A resposta da IA nao continha a estrutura esperada (clientName e positiveEntries).">>
FallbackMsg == <<"O servico da IA esta instavel (", "503", ").">>
NoTextMsg == <<"Cannot read properties of undefined (reading 'trim')">>

\* messages of the errors the outbound call may raise; <<>> is an error
\* without a message
CallErrorMsgs ==
    { <<>> }
    \cup { <<m>> : m \in AuthMarkers \cup SafetyMarkers \cup TransientMarkers }
    \cup { <<"network down">>, <<"quota: ", "429">>, <<"503", " after ", "400">>,
           <<"SAFETY", " and ", "overloaded">>, <<"429", " ", "SAFETY">>,
           <<"SAFETY", " ", "INVALID_ARGUMENT">> }

\* JSON.parse's SyntaxError text is engine-defined: it may quote the input
\* and the failing position
SyntaxErrorMsgs ==
    { <<"Unexpected token">>, <<"Unexpected token at position ", "400">>,
      <<"Unexpected token at position ", "503">> }

IsAuth(msg) == \E m \in AuthMarkers : Includes(msg, m)
IsSafety_AfterTransient(msg) ==
    /\ \E m \in SafetyMarkers : Includes(msg, m)
    /\ ~ \E m \in TransientMarkers : Includes(msg, m)

IsSafety(msg) == \E m \in SafetyMarkers : Includes(msg, m)
IsTransient(msg) == \E m \in TransientMarkers : Includes(msg, m)

-----------------------------------------------------------------------------
(* Entries and JSON values *)

Str_PIX == <<"P", "I", "X">>
Str_SAL == <<"S", "A", "L">>
Date_Jan10 == <<"2", "0", "2", "4", "-", "0", "1", "-", "1", "0">>
Date_Feb10 == <<"2", "0", "2", "4", "-", "0", "2", "-", "1", "0">>

Entry(d, a, dt) == [description |-> d, amount |-> a, date |-> dt]

JUndefined == [t |-> "undefined"]
JNull == [t |-> "null"]
JNum(n) == [t |-> "num", v |-> n]
JStr(s) == [t |-> "str", v |-> s]
JArr(a) == [t |-> "arr", v |-> a]
JObj(f) == [t |-> "obj", v |-> f]

\* o[key] for a parsed JSON value o that is not null
Get(o, key) == IF o.t = "obj" /\ key \in DOMAIN o.v THEN o.v[key] ELSE JUndefined

\* !o
Falsy(o) ==
    \/ o.t \in {"null", "undefined"}
    \/ o.t = "num" /\ o.v = 0
    \/ o.t = "str" /\ o.v = <<>>

EntryLists ==
    { <<>>,
      <<Entry(Str_PIX, 500, Date_Jan10)>>,
      <<Entry(Str_SAL, 1000, Date_Jan10), Entry(Str_PIX, 500, Date_Feb10)>> }

Names == { <<>>, <<"A", "N", "A">> }

\* what JSON.parse may return for the response text
ParsedSamples ==
    { JNull, JNum(5), JNum(0), JArr(<<>>), JObj(<<>>) }
    \cup { JObj([clientName |-> JStr(n)]) : n \in Names }
    \cup { JObj([positiveEntries |-> JArr(l)]) : l \in EntryLists }
    \cup { JObj([clientName |-> c, positiveEntries |-> p]) :
             c \in { JStr(n) : n \in Names } \cup { JNull },
             p \in { JArr(l) : l \in EntryLists }
                   \cup { JNull, JStr(Str_PIX), JObj(<<>>) } }

\* what a settled generateContent call hands back:
\*   threw(msg)  the call rejected with an error of that message
\*   noText      response.text is undefined
\*   badJson     response.text is not JSON
\*   json(v)     response.text is the JSON text of v
CallOutcomes ==
    { [kind |-> "threw", msg |-> m, value |-> JUndefined] : m \in CallErrorMsgs }
    \cup { [kind |-> "noText", msg |-> <<>>, value |-> JUndefined],
           [kind |-> "badJson", msg |-> <<>>, value |-> JUndefined] }
    \cup { [kind |-> "json", msg |-> <<>>, value |-> v] : v \in ParsedSamples }

HasExpectedStructure_NonEmptyList(parsedJson) ==
    /\ ~ Falsy(parsedJson)
    /\ Get(parsedJson, "clientName").t # "undefined"
    /\ Get(parsedJson, "positiveEntries").t = "arr"
    /\ Get(parsedJson, "positiveEntries").v # <<>>

HasExpectedStructure_TruthyName(parsedJson) ==
    /\ ~ Falsy(parsedJson)
    /\ ~ Falsy(Get(parsedJson, "clientName"))
    /\ Get(parsedJson, "positiveEntries").t = "arr"

\* line 132, negated: the parsed value has the expected structure
HasExpectedStructure(parsedJson) ==
    ~ ( \/ Falsy(parsedJson)
        \/ Get(parsedJson, "clientName").t = "undefined"
        \/ Get(parsedJson, "positiveEntries").t # "arr" )

\* the messages the try block (lines 109-136) can throw for a call outcome;
\* empty when it returns
TryThrows(o) ==
    CASE o.kind = "threw" -> { o.msg }
      [] o.kind = "noText" -> { NoTextMsg }
      [] o.kind = "badJson" -> SyntaxErrorMsgs
      [] OTHER -> IF HasExpectedStructure(o.value) THEN {} ELSE { StructureMsg }

-----------------------------------------------------------------------------
(* analyzeStatement *)

maxRetries_4 == 3 + 1

maxRetries == 3

RECURSIVE Pow2(_)
Pow2(n) == IF n = 0 THEN 1 ELSE 2 * Pow2(n - 1)

BackoffMs_FromTwo(n) == 1000 * Pow2(n + 1)

\* line 162: the argument of wait()
BackoffMs(n) == 1000 * Pow2(n)

ShouldRetry_AnyError(msg, n) == n < maxRetries - 1

ShouldRetry_OneShort(msg, n) == IsTransient(msg) /\ n < maxRetries - 2

\* line 160
ShouldRetry(msg, n) == IsTransient(msg) /\ n < maxRetries - 1

AfterLoopMsg_Generic(le) == FallbackMsg

\* line 172: lastError?.message || "O servico da IA esta instavel (503)..."
AfterLoopMsg(le) == IF le.defined /\ le.message # <<>> THEN le.message ELSE FallbackMsg

NoError == [defined |-> FALSE, message |-> <<>>]
NoResult == JUndefined

Reject(msg) ==
    /\ pc' = "done"
    /\ outcome' = "rejected"
    /\ result' = msg

Resolve(value) ==
    /\ pc' = "done"
    /\ outcome' = "resolved"
    /\ result' = value

\* the loop head `attempt < maxRetries` for the value n of attempt, followed
\* by the outbound call or by the throw after the loop
LoopHead(n, le) ==
    /\ attempt' = n
    /\ IF n < maxRetries
       THEN /\ calls' = calls + 1
            /\ pc' = "calling"
            /\ UNCHANGED <<outcome, result>>
       ELSE /\ Reject(AfterLoopMsg(le))
            /\ UNCHANGED calls

\* lines 40-108: read and check the credential, enter the loop
Enter ==
    /\ pc = "idle"
    /\ LET apiKey == CleanApiKey(RawApiKey(env))
       IN IF apiKey = <<>>
          THEN Reject(MissingKeyMsg) /\ UNCHANGED <<attempt, calls>>
          ELSE IF ~ StartsWith(apiKey, KeyPrefix)
          THEN Reject(InvalidKeyMsg(apiKey)) /\ UNCHANGED <<attempt, calls>>
          ELSE LoopHead(0, lastError)
    /\ UNCHANGED <<env, lastError, waits, trace>>

\* analyzeStatement is called on its own
Invoke == Enter /\ UNCHANGED <<aggVars, appVars>>

\* lines 137-168: the catch block for an error with message msg
Catch(msg) ==
    /\ lastError' = [defined |-> TRUE, message |-> msg]
    /\ IF IsAuth(msg)
       THEN Reject(AuthMsg) /\ UNCHANGED waits
       ELSE IF IsSafety(msg)
       THEN Reject(SafetyMsg) /\ UNCHANGED waits
       ELSE IF ShouldRetry(msg, attempt)
       THEN /\ waits' = Append(waits, BackoffMs(attempt))
            /\ pc' = "waiting"
            /\ UNCHANGED <<outcome, result>>
       ELSE /\ Reject(AfterLoopMsg([defined |-> TRUE, message |-> msg]))
            /\ UNCHANGED waits

\* the pending call settles and the attempt ends by a return (lines 129-136)
AttemptReturns ==
    /\ pc = "calling"
    /\ \E o \in CallOutcomes :
         /\ TryThrows(o) = {}
         /\ trace' = Append(trace, [n |-> attempt, failed |-> FALSE, msg |-> <<>>,
                                    o |-> o])
         /\ Resolve(o.value)
    /\ UNCHANGED <<env, attempt, lastError, calls, waits, aggVars, appVars>>

\* the pending call settles and the attempt ends in the catch block
AttemptThrows ==
    /\ pc = "calling"
    /\ \E o \in CallOutcomes : \E msg \in TryThrows(o) :
         /\ trace' = Append(trace, [n |-> attempt, failed |-> TRUE, msg |-> msg,
                                    o |-> o])
         /\ Catch(msg)
    /\ UNCHANGED <<env, attempt, calls, aggVars, appVars>>

\* the backoff timer fires: `continue`, attempt++, loop head
WaitElapses ==
    /\ pc = "waiting"
    /\ LoopHead(attempt + 1, lastError)
    /\ UNCHANGED <<env, lastError, waits, trace, aggVars, appVars>>

-----------------------------------------------------------------------------
(* MonthlyAnalysisTable *)

\* String.prototype.split('-'): the pieces between the dashes, at least one
RECURSIVE Split(_)
Split(s) ==
    IF \A i \in DOMAIN s : s[i] # "-"
    THEN <<s>>
    ELSE LET k == CHOOSE i \in DOMAIN s :
                     s[i] = "-" /\ \A j \in 1..(i - 1) : s[j] # "-"
         IN <<SubSeq(s, 1, k - 1)>> \o Split(SubSeq(s, k + 1, Len(s)))

\* the text a template literal gives for undefined
UndefinedText == <<"u", "n", "d", "e", "f", "i", "n", "e", "d">>

\* lines 34-35: const [year, month] = entry.date.split('-'); `${year}-${month}`
MonthYear(date) ==
    LET parts == Split(date)
        year == parts[1]
        month == IF Len(parts) >= 2 THEN parts[2] ELSE UndefinedText
    IN year \o <<"-">> \o month

\* line 33: the entry takes part in the aggregation
Aggregated(entry) == ~ (entry.date = <<>> \/ entry.description = <<>>)

Str_constructor == <<"c", "o", "n", "s", "t", "r", "u", "c", "t", "o", "r">>

\* property names every object literal inherits from Object.prototype, among
\* the descriptions considered: analysis[name] is truthy although `analysis`
\* has no such own key
InheritedNames == { Str_constructor }

\* position of key in a list of [key, value] pairs, 0 when absent
IndexOf(pairs, key) ==
    IF \E i \in DOMAIN pairs : pairs[i].key = key
    THEN CHOOSE i \in DOMAIN pairs : pairs[i].key = key
    ELSE 0

AddTo_LastWins(pairs, key, amount) ==
    LET i == IndexOf(pairs, key)
    IN IF i = 0
       THEN Append(pairs, [key |-> key, value |-> 0 + amount])
       ELSE [pairs EXCEPT ![i].value = amount]

\* obj[key] = (obj[key] || 0) + amount on an object kept as its own keys in
\* insertion order (lines 41-44 and 47-50)
AddTo(pairs, key, amount) ==
    LET i == IndexOf(pairs, key)
    IN IF i = 0
       THEN Append(pairs, [key |-> key, value |-> 0 + amount])
       ELSE [pairs EXCEPT ![i].value = (IF @ = 0 THEN 0 ELSE @) + amount]

EmptyAcc ==
    [analysis |-> <<>>, inherited |-> {}, monthlyTotals |-> <<>>, allMonths |-> <<>>]

\* lines 32-51: the body of entries.forEach for one entry
VisitEntry(acc, entry) ==
    IF ~ Aggregated(entry) THEN acc
    ELSE
    LET monthYear == MonthYear(entry.date)
        d == entry.description
        own == d \in DOMAIN acc.analysis
        \* line 38: !analysis[entry.description]
        create == ~ own /\ d \notin InheritedNames
        row == IF own THEN acc.analysis[d] ELSE [total |-> 0, cells |-> <<>>]
        row2 == [total |-> row.total + entry.amount,
                 cells |-> AddTo(row.cells, monthYear, entry.amount)]
    IN [analysis |->
            IF own \/ create
            THEN [k \in DOMAIN acc.analysis \cup {d} |->
                      IF k = d THEN row2 ELSE acc.analysis[k]]
            ELSE acc.analysis,
        \* the writes of lines 42-45 land on the inherited member
        inherited |->
            IF own \/ create THEN acc.inherited
            ELSE acc.inherited \cup {monthYear, <<"t", "o", "t", "a", "l">>},
        monthlyTotals |-> AddTo(acc.monthlyTotals, monthYear, entry.amount),
        allMonths |->
            IF \E i \in DOMAIN acc.allMonths : acc.allMonths[i] = monthYear
            THEN acc.allMonths
            ELSE Append(acc.allMonths, monthYear)]

RECURSIVE ForEach(_, _)
ForEach(acc, list) ==
    IF list = <<>> THEN acc ELSE ForEach(VisitEntry(acc, Head(list)), Tail(list))

\* UTF-16 code units of the characters that occur in keys
CodeUnit(c) ==
    CASE c = " " -> 32 [] c = "-" -> 45
      [] c = "0" -> 48 [] c = "1" -> 49 [] c = "2" -> 50 [] c = "3" -> 51
      [] c = "4" -> 52 [] c = "5" -> 53 [] c = "6" -> 54 [] c = "7" -> 55
      [] c = "8" -> 56 [] c = "9" -> 57
      [] c = "A" -> 65 [] c = "I" -> 73 [] c = "L" -> 76 [] c = "P" -> 80
      [] c = "S" -> 83 [] c = "X" -> 88
      [] c = "a" -> 97 [] c = "c" -> 99 [] c = "d" -> 100 [] c = "e" -> 101
      [] c = "f" -> 102 [] c = "i" -> 105 [] c = "n" -> 110 [] c = "o" -> 111
      [] c = "p" -> 112 [] c = "r" -> 114 [] c = "s" -> 115 [] c = "t" -> 116
      [] c = "u" -> 117 [] c = "x" -> 120

\* a < b in the default order of Array.prototype.sort (by code units)
RECURSIVE StrLess(_, _)
StrLess(a, b) ==
    IF b = <<>> THEN FALSE
    ELSE IF a = <<>> THEN TRUE
    ELSE IF Head(a) = Head(b) THEN StrLess(Tail(a), Tail(b))
    ELSE CodeUnit(Head(a)) < CodeUnit(Head(b))

\* insert key into an ascending list, after the keys that are not greater
RECURSIVE Insert(_, _)
Insert(sorted, key) ==
    IF sorted = <<>> THEN <<key>>
    ELSE IF StrLess(key, Head(sorted)) THEN <<key>> \o sorted
    ELSE <<Head(sorted)>> \o Insert(Tail(sorted), key)

\* Array.prototype.sort() without a comparator
RECURSIVE Sort(_)
Sort(list) == IF list = <<>> THEN <<>> ELSE Insert(Sort(Tail(list)), Head(list))

\* Object.keys(analysis), in some enumeration of the own keys
RECURSIVE KeysOf(_)
KeysOf(keys) ==
    IF keys = {} THEN <<>>
    ELSE LET k == CHOOSE k \in keys : TRUE IN <<k>> \o KeysOf(keys \ {k})

\* lines 25-54: the component body
Render ==
    /\ LET acc == ForEach([EmptyAcc EXCEPT !.inherited = inherited], entries)
       IN /\ analysis' = acc.analysis
          /\ inherited' = acc.inherited
          /\ monthlyTotals' = acc.monthlyTotals
          /\ allMonths' = acc.allMonths
          /\ sortedMonths' = Sort(acc.allMonths)
          /\ sortedDescriptions' = Sort(KeysOf(DOMAIN acc.analysis))
    /\ rendered' = TRUE
    /\ UNCHANGED <<entries, report, clientVars, appVars>>

\* the text of a table cell: a formatted amount, or the dash
Dash == [text |-> "-"]
Currency(value) == [text |-> "currency", value |-> value]

\* lines 251 and 146: analysis[description][monthYear]
\*   ? formatCurrency(analysis[description][monthYear]) : '-'
\* for a row of the table (an own key of analysis)
DisplayCell(description, monthYear) ==
    LET cells == analysis[description].cells
        i == IndexOf(cells, monthYear)
    IN IF i # 0 /\ cells[i].value # 0 THEN Currency(cells[i].value) ELSE Dash

\* Object.values(monthlyTotals).reduce((sum, total) => sum + total, 0)
RECURSIVE SumValues(_)
SumValues(pairs) ==
    IF pairs = <<>> THEN 0 ELSE Head(pairs).value + SumValues(Tail(pairs))

NoBest == [key |-> <<>>, value |-> 0]

\* lines 69-71: Object.entries(monthlyTotals).reduce(..., ['', 0])
RECURSIVE BestOf(_, _)
BestOf(best, pairs) ==
    IF pairs = <<>> THEN best
    ELSE BestOf(IF Head(pairs).value > best.value THEN Head(pairs) ELSE best,
                Tail(pairs))

TransactionCount_Aggregated(list) == Len(SelectSeq(list, Aggregated))

\* line 65: entries.length
TransactionCount(list) == Len(list)

\* the number 0 as a quotient
Zero == [num |-> 0, den |-> 1]

MonthlyAverage_NoGuard(grandTotal, numberOfMonths) ==
    [num |-> grandTotal, den |-> numberOfMonths]

\* line 67: numberOfMonths > 0 ? grandTotal / numberOfMonths : 0, the
\* quotient kept as numerator and denominator
MonthlyAverage(grandTotal, numberOfMonths) ==
    IF numberOfMonths > 0
    THEN [num |-> grandTotal, den |-> numberOfMonths]
    ELSE Zero

\* lines 57-81: the summary figures of handleGeneratePdf
GeneratePdf ==
    /\ rendered
    /\ LET grandTotal == SumValues(monthlyTotals)
           numberOfMonths == Len(sortedMonths)
       IN report' =
            [generated |-> TRUE,
             grandTotal |-> grandTotal,
             transactionCount |-> TransactionCount(entries),
             numberOfMonths |-> numberOfMonths,
             monthlyAverage |-> MonthlyAverage(grandTotal, numberOfMonths),
             bestMonth |-> BestOf(NoBest, monthlyTotals)]
    /\ UNCHANGED <<entries, rendered, analysis, inherited, monthlyTotals, allMonths,
                   sortedMonths, sortedDescriptions, clientVars, appVars>>

-----------------------------------------------------------------------------
(* App: the session state and its handlers *)

\* a File object; state that may be null or a string holds a tagged value
File(name, type) == [t |-> "file", name |-> name, type |-> type]

Type_png == <<"i", "m", "a", "g", "e", "/", "p", "n", "g">>
Type_pdf == <<"a", "p", "p", "l", "i", "c", "a", "t", "i", "o", "n", "/", "p", "d", "f">>
Type_txt == <<"t", "e", "x", "t", "/", "p", "l", "a", "i", "n">>

\* the files a user may pick or drop
FileSamples ==
    { File("extrato.png", Type_png), File("extrato.pdf", Type_pdf),
      File("notas.txt", Type_txt) }

ImagePrefix == <<"i", "m", "a", "g", "e", "/">>

\* the useState initial values of App (lines 11-19)
AppInitial ==
    [file |-> JNull,
     preview |-> JNull,
     positiveEntries |-> <<>>,
     extractedClientName |-> JStr(<<>>),
     isLoading |-> FALSE,
     error |-> JNull,
     isEditingName |-> FALSE,
     editableName |-> JStr(<<>>)]

\* lines 22-27: the state updates of handleFileSelect
handleFileSelect(s, selectedFile) ==
    [s EXCEPT !.file = selectedFile,
              !.positiveEntries = <<>>,
              !.error = JNull,
              !.extractedClientName = JStr(<<>>),
              !.editableName = JStr(<<>>),
              !.isEditingName = FALSE]

handleFileClear_KeepsEntries(s) ==
    [s EXCEPT !.file = JNull,
              !.preview = JNull,
              !.error = JNull,
              !.editableName = JStr(<<>>),
              !.isEditingName = FALSE]

\* lines 35-43
handleFileClear(s) ==
    [s EXCEPT !.file = JNull,
              !.preview = JNull,
              !.positiveEntries = <<>>,
              !.extractedClientName = JStr(<<>>),
              !.error = JNull,
              !.editableName = JStr(<<>>),
              !.isEditingName = FALSE]

SelectFirstMsg == <<"Por favor, selecione um arquivo de extrato primeiro.">>
ReadEmptyMsg == <<"Nao foi possivel ler o conteudo do arquivo.">>
ReadErrorMsg == <<"Ocorreu um erro ao ler o arquivo.">>
UnknownErrorMsg == <<"Ocorreu um erro desconhecido ao analisar o extrato.">>

AnalyzeStarted_KeepsError(s) ==
    IF s.file = JNull
    THEN [s EXCEPT !.error = JStr(SelectFirstMsg)]
    ELSE [s EXCEPT !.isLoading = TRUE,
                   !.positiveEntries = <<>>,
                   !.extractedClientName = JStr(<<>>),
                   !.editableName = JStr(<<>>),
                   !.isEditingName = FALSE]

\* lines 46-56: handleAnalyzeClick up to the first await
AnalyzeStarted(s) ==
    IF s.file = JNull
    THEN [s EXCEPT !.error = JStr(SelectFirstMsg)]
    ELSE [s EXCEPT !.isLoading = TRUE,
                   !.error = JNull,
                   !.positiveEntries = <<>>,
                   !.extractedClientName = JStr(<<>>),
                   !.editableName = JStr(<<>>),
                   !.isEditingName = FALSE]

\* lines 77-79 and 85: the call resolved with `result`
AnalyzeSucceeded(s, res) ==
    [s EXCEPT !.positiveEntries = Get(res, "positiveEntries").v,
              !.extractedClientName = Get(res, "clientName"),
              !.editableName = Get(res, "clientName"),
              !.isLoading = FALSE]

AnalyzeFailed_StaysLoading(s, msg) ==
    [s EXCEPT !.error = JStr(IF msg = <<>> THEN UnknownErrorMsg ELSE msg),
              !.positiveEntries = <<>>]

\* lines 81-85: the catch block for an error with message msg
AnalyzeFailed(s, msg) ==
    [s EXCEPT !.error = JStr(IF msg = <<>> THEN UnknownErrorMsg ELSE msg),
              !.positiveEntries = <<>>,
              !.isLoading = FALSE]

\* lines 89-92
handleEditName(s) ==
    [s EXCEPT !.editableName = s.extractedClientName, !.isEditingName = TRUE]

\* lines 94-99
handleSaveName(s) ==
    [s EXCEPT !.extractedClientName =
                  IF Trim(s.editableName.v) # <<>> THEN s.editableName ELSE @,
              !.isEditingName = FALSE]

\* lines 101-103
handleCancelName(s) == [s EXCEPT !.isEditingName = FALSE]

\* line 121: FileUpload is rendered
UploadShown(s) == s.file = JNull

AnalyzeEnabled_Always(s) == s.file # JNull

\* lines 123 and 144-150: the Analisar button is rendered and enabled
AnalyzeEnabled(s) == s.file # JNull /\ ~ s.isLoading

\* lines 123 and 151-157: the Trocar Arquivo button is rendered and enabled
ClearEnabled(s) == s.file # JNull /\ ~ s.isLoading

\* line 175: the name line and the two tables are rendered
ResultsShown(s) == Len(s.positiveEntries) > 0 /\ ~ s.isLoading

-----------------------------------------------------------------------------
(* FileUpload and ResultsTable *)

\* line 202 of FileUpload's handleDrop
Accepted(file) == StartsWith(file.type, ImagePrefix) \/ file.type = Type_pdf

\* reader.result of readAsDataURL for a file
DataUrl(file) == JStr(<<"data:", file.name>>)

\* JSON.parse(JSON.stringify(entries)): a fresh list of fresh entries
JsonCopy(list) ==
    [i \in DOMAIN list |-> Entry(list[i].description, list[i].amount, list[i].date)]

DigitOf(c) ==
    CASE c = "0" -> 0 [] c = "1" -> 1 [] c = "2" -> 2 [] c = "3" -> 3 [] c = "4" -> 4
      [] c = "5" -> 5 [] c = "6" -> 6 [] c = "7" -> 7 [] c = "8" -> 8 [] c = "9" -> 9
      [] OTHER -> -1

RECURSIVE DigitsValue(_, _)
DigitsValue(s, acc) ==
    IF s = <<>> THEN acc ELSE DigitsValue(Tail(s), acc * 10 + DigitOf(Head(s)))

NaN == [nan |-> TRUE, v |-> 0]

\* Number(value) for the text of the amount input: the empty text is 0,
\* digits with an optional minus sign are their value, other text is NaN
ToNumber(value) ==
    LET negative == value # <<>> /\ Head(value) = "-"
        digits == IF negative THEN Tail(value) ELSE value
    IN IF (negative /\ digits = <<>>) \/ \E i \in DOMAIN digits : DigitOf(digits[i]) < 0
       THEN NaN
       ELSE [nan |-> FALSE,
             v |-> IF negative THEN 0 - DigitsValue(digits, 0) ELSE DigitsValue(digits, 0)]

\* the useState initial values of ResultsTable (lines 11-12)
TableInitial == [isEditing |-> FALSE, editedEntries |-> <<>>]

handleEditToggle_KeepsDraft(t, list) ==
    [isEditing |-> ~ t.isEditing, editedEntries |-> t.editedEntries]

\* lines 18-23, for the table state t and the entries prop
handleEditToggle(t, list) ==
    [isEditing |-> ~ t.isEditing,
     editedEntries |-> IF t.isEditing THEN JsonCopy(list) ELSE t.editedEntries]

\* lines 30-39; index counts from 1
handleEntryChange(draft, index, field, value) ==
    IF field = "amount"
    THEN LET numValue == ToNumber(value)
         IN [draft EXCEPT ![index].amount = IF numValue.nan THEN 0 ELSE numValue.v]
    ELSE [draft EXCEPT ![index][field] = value]

\* lines 41-44, `today` being the date the clock gives
handleAddRow(draft, today) == Append(draft, Entry(<<>>, 0, today))

\* lines 46-49; index counts from 1
handleDeleteRow(draft, index) ==
    [i \in 1..(Len(draft) - 1) |-> IF i < index THEN draft[i] ELSE draft[i + 1]]

\* ResultsTable's state once App holds `new` instead of `old`: unmounted
\* when line 175 hides it, mounted afresh when line 175 shows it again, and
\* the effect of lines 14-16 when the entries prop changed
TableAfter(old, new, t) ==
    IF ~ ResultsShown(new) THEN TableInitial
    ELSE IF ~ ResultsShown(old)
    THEN [TableInitial EXCEPT !.editedEntries = JsonCopy(new.positiveEntries)]
    ELSE IF new.positiveEntries # old.positiveEntries
    THEN [t EXCEPT !.editedEntries = JsonCopy(new.positiveEntries)]
    ELSE t

\* App's state becomes `new` and ResultsTable's handler left its state at t
\* after n changes of the draft; the components are rendered again
Update(new, t, n) ==
    /\ app' = new
    /\ edits' = IF ResultsShown(app) /\ ResultsShown(new) THEN n ELSE 0
    /\ LET after == TableAfter(app, new, t)
       IN /\ isEditing' = after.isEditing
          /\ editedEntries' = after.editedEntries
    /\ isDragging' = (UploadShown(app) /\ UploadShown(new) /\ isDragging)

Table == [isEditing |-> isEditing, editedEntries |-> editedEntries]

NoTask == [phase |-> "none", file |-> JNull]

-----------------------------------------------------------------------------
(* The session: user events and asynchronous completions *)

MaxInFlight == 2
\* changes of the draft followed per mounted table
MaxEdits == 1
\* preview readers followed at a time
MaxPreviewReads == 1

DragTypes == { "dragenter", "dragover", "dragleave" }
NameInputs == { <<" ">>, <<"B", "I", "A">> }
DescriptionInputs == { Str_SAL }
DateInputs == { Date_Feb10 }
AmountInputs == { <<"7">>, <<"x">> }
TodaySamples == { Date_Feb10 }

\* handleFileSelect with its preview reader (lines 21-33)
Select(selectedFile) ==
    /\ Cardinality(previewReads) < MaxPreviewReads
    /\ Update(handleFileSelect(app, selectedFile), Table, edits)
    /\ previewReads' = previewReads \cup {selectedFile}
    /\ current' = FALSE
    /\ UNCHANGED <<task, inFlight, mimeType, clientVars, aggVars>>

\* FileUpload lines 186-194
Drag ==
    /\ UploadShown(app)
    /\ \E type \in DragTypes :
         isDragging' = (type \in {"dragenter", "dragover"})
    /\ UNCHANGED <<app, isEditing, editedEntries, previewReads, task, inFlight,
                   mimeType, current, edits, clientVars, aggVars>>

\* FileUpload lines 196-208; JNull is a drop that carries no file
Drop ==
    /\ UploadShown(app)
    /\ \E dropped \in FileSamples \cup {JNull} :
         IF dropped # JNull /\ Accepted(dropped)
         THEN Select(dropped)
         ELSE /\ isDragging' = FALSE
              /\ UNCHANGED <<app, isEditing, editedEntries, previewReads, task,
                             inFlight, mimeType, current, edits, clientVars, aggVars>>

\* FileUpload lines 210-216: the change event of the file input; its accept
\* attribute (line 230) filters the file dialog's default view only
InputChange ==
    /\ UploadShown(app)
    /\ \E chosen \in FileSamples : Select(chosen)

\* lines 29-31: a preview reader ends, with the data or with null
PreviewLoaded ==
    /\ \E f \in previewReads : \E data \in {DataUrl(f), JNull} :
         /\ Update([app EXCEPT !.preview = data], Table, edits)
         /\ previewReads' = previewReads \ {f}
    /\ UNCHANGED <<task, inFlight, mimeType, current, clientVars, aggVars>>

\* the Trocar Arquivo button
ClickClear ==
    /\ ClearEnabled(app)
    /\ Update(handleFileClear(app), Table, edits)
    /\ current' = FALSE
    /\ UNCHANGED <<previewReads, task, inFlight, mimeType, clientVars, aggVars>>

\* the Analisar button: handleAnalyzeClick up to the file read (lines 45-61)
ClickAnalyze ==
    /\ AnalyzeEnabled(app)
    /\ inFlight < MaxInFlight
    /\ Update(AnalyzeStarted(app), Table, edits)
    /\ task' = [phase |-> "reading", file |-> app.file]
    /\ inFlight' = inFlight + 1
    /\ current' = FALSE
    /\ UNCHANGED <<previewReads, mimeType, clientVars, aggVars>>

\* lines 62-66 and 76: the file was read, analyzeStatement is called
FileReadSucceeds ==
    /\ task.phase = "reading"
    /\ Enter
    /\ task' = [task EXCEPT !.phase = "awaiting"]
    /\ mimeType' = JStr(task.file.type)
    /\ UNCHANGED <<app, isDragging, isEditing, editedEntries, previewReads,
                   inFlight, current, edits, aggVars>>

\* lines 67-73 and 81-86: the file read failed
FileReadFails ==
    /\ task.phase = "reading"
    /\ \E msg \in {ReadEmptyMsg, ReadErrorMsg} :
         Update(AnalyzeFailed(app, msg), Table, edits)
    /\ task' = NoTask
    /\ inFlight' = inFlight - 1
    /\ UNCHANGED <<previewReads, mimeType, current, clientVars, aggVars>>

\* lines 76-86: the promise of analyzeStatement settled; its locals are gone
Settle ==
    /\ task.phase = "awaiting"
    /\ pc = "done"
    /\ IF outcome = "resolved"
       THEN /\ Update(AnalyzeSucceeded(app, result), Table, edits)
            /\ current' = TRUE
       ELSE /\ Update(AnalyzeFailed(app, result), Table, edits)
            /\ UNCHANGED current
    /\ task' = NoTask
    /\ inFlight' = inFlight - 1
    /\ mimeType' = JNull
    /\ pc' = "idle"
    /\ attempt' = 0
    /\ lastError' = NoError
    /\ calls' = 0
    /\ waits' = <<>>
    /\ trace' = <<>>
    /\ outcome' = "pending"
    /\ result' = NoResult
    /\ UNCHANGED <<env, previewReads, aggVars>>

\* lines 197-202: the pencil next to the name
ClickEditName ==
    /\ ResultsShown(app)
    /\ ~ app.isEditingName
    /\ ~ Falsy(app.extractedClientName)
    /\ Update(handleEditName(app), Table, edits)
    /\ UNCHANGED <<previewReads, task, inFlight, mimeType, current, clientVars, aggVars>>

\* line 187: typing in the name input
TypeName ==
    /\ ResultsShown(app)
    /\ app.isEditingName
    /\ \E value \in NameInputs :
         Update([app EXCEPT !.editableName = JStr(value)], Table, edits)
    /\ UNCHANGED <<previewReads, task, inFlight, mimeType, current, clientVars, aggVars>>

\* lines 188 and 192: Enter or the Salvar button
SaveName ==
    /\ ResultsShown(app)
    /\ app.isEditingName
    /\ Update(handleSaveName(app), Table, edits)
    /\ UNCHANGED <<previewReads, task, inFlight, mimeType, current, clientVars, aggVars>>

\* line 193
CancelName ==
    /\ ResultsShown(app)
    /\ app.isEditingName
    /\ Update(handleCancelName(app), Table, edits)
    /\ UNCHANGED <<previewReads, task, inFlight, mimeType, current, clientVars, aggVars>>

\* ResultsTable lines 70-77 (Editar) and 86-91 (Cancelar)
ClickEditToggle ==
    /\ ResultsShown(app)
    /\ Update(app, handleEditToggle(Table, app.positiveEntries), edits)
    /\ UNCHANGED <<previewReads, task, inFlight, mimeType, current, clientVars, aggVars>>

\* ResultsTable lines 25-28 and 80-85
ClickSave ==
    /\ ResultsShown(app)
    /\ isEditing
    /\ Update([app EXCEPT !.positiveEntries = editedEntries],
              [Table EXCEPT !.isEditing = FALSE], edits)
    /\ UNCHANGED <<previewReads, task, inFlight, mimeType, current, clientVars, aggVars>>

\* ResultsTable lines 110-140: typing in a cell of the draft
ChangeEntry ==
    /\ ResultsShown(app)
    /\ isEditing
    /\ edits < MaxEdits
    /\ \E index \in DOMAIN editedEntries :
         \/ \E value \in DescriptionInputs :
              Update(app, [Table EXCEPT !.editedEntries =
                  handleEntryChange(editedEntries, index, "description", value)], edits + 1)
         \/ \E value \in DateInputs :
              Update(app, [Table EXCEPT !.editedEntries =
                  handleEntryChange(editedEntries, index, "date", value)], edits + 1)
         \/ \E value \in AmountInputs :
              Update(app, [Table EXCEPT !.editedEntries =
                  handleEntryChange(editedEntries, index, "amount", value)], edits + 1)
    /\ UNCHANGED <<previewReads, task, inFlight, mimeType, current, clientVars, aggVars>>

\* ResultsTable lines 161-169
AddRow ==
    /\ ResultsShown(app)
    /\ isEditing
    /\ edits < MaxEdits
    /\ \E today \in TodaySamples :
         Update(app, [Table EXCEPT !.editedEntries = handleAddRow(editedEntries, today)], edits + 1)
    /\ UNCHANGED <<previewReads, task, inFlight, mimeType, current, clientVars, aggVars>>

\* ResultsTable lines 145-155
DeleteRow ==
    /\ ResultsShown(app)
    /\ isEditing
    /\ edits < MaxEdits
    /\ \E index \in DOMAIN editedEntries :
         Update(app, [Table EXCEPT !.editedEntries = handleDeleteRow(editedEntries, index)], edits + 1)
    /\ UNCHANGED <<previewReads, task, inFlight, mimeType, current, clientVars, aggVars>>

-----------------------------------------------------------------------------
(* Specifications *)

NoReport == [generated |-> FALSE]

AggIdle ==
    /\ entries = <<>>
    /\ rendered = FALSE
    /\ analysis = <<>>
    /\ inherited = {}
    /\ monthlyTotals = <<>>
    /\ allMonths = <<>>
    /\ sortedMonths = <<>>
    /\ sortedDescriptions = <<>>
    /\ report = NoReport

ClientIdle ==
    /\ pc = "idle"
    /\ attempt = 0
    /\ lastError = NoError
    /\ calls = 0
    /\ waits = <<>>
    /\ trace = <<>>
    /\ outcome = "pending"
    /\ result = NoResult

AppIdle ==
    /\ app = AppInitial
    /\ isDragging = FALSE
    /\ isEditing = FALSE
    /\ editedEntries = <<>>
    /\ previewReads = {}
    /\ task = NoTask
    /\ inFlight = 0
    /\ mimeType = JNull
    /\ current = FALSE
    /\ edits = 0

InitClient ==
    /\ env \in EnvSamples
    /\ ClientIdle
    /\ AggIdle
    /\ AppIdle

NextClient == Invoke \/ AttemptReturns \/ AttemptThrows \/ WaitElapses

SpecClient == InitClient /\ [][NextClient]_vars

MaxEntries == 2

Date_Bad13 == <<"2", "0", "2", "4", "-", "1", "3", "-", "0", "1">>
Date_NoDash == <<"x">>

DescriptionSamples == { <<>>, Str_PIX, Str_SAL, Str_constructor }
AmountSamples == { 500, -500 }
DateSamples == { <<>>, Date_Jan10, Date_Feb10, Date_Bad13, Date_NoDash }

EntrySamples ==
    { Entry(d, a, dt) : d \in DescriptionSamples, a \in AmountSamples, dt \in DateSamples }

RECURSIVE ListsUpTo(_)
ListsUpTo(n) ==
    IF n = 0 THEN { <<>> }
    ELSE LET shorter == ListsUpTo(n - 1)
         IN shorter \cup { Append(l, e) : l \in { x \in shorter : Len(x) = n - 1 },
                                          e \in EntrySamples }

\* the component is mounted with some entry list
InitAgg ==
    /\ env \in { [meta |-> GoodKey, proc |-> TRUE, pv |-> <<>>, pa |-> <<>>] }
    /\ ClientIdle
    /\ entries \in ListsUpTo(MaxEntries)
    /\ rendered = FALSE
    /\ analysis = <<>>
    /\ inherited = {}
    /\ monthlyTotals = <<>>
    /\ allMonths = <<>>
    /\ sortedMonths = <<>>
    /\ sortedDescriptions = <<>>
    /\ report = NoReport
    /\ AppIdle

NextAgg == Render \/ GeneratePdf

SpecAgg == InitAgg /\ [][NextAgg]_vars

\* the page is loaded in an environment with a usable key or with none
InitApp ==
    /\ env \in { [meta |-> k, proc |-> TRUE, pv |-> <<>>, pa |-> <<>>] : k \in {GoodKey, <<>>} }
    /\ ClientIdle
    /\ AggIdle
    /\ AppIdle

NextApp ==
    \/ Drag \/ Drop \/ InputChange \/ PreviewLoaded \/ ClickClear \/ ClickAnalyze
    \/ FileReadSucceeds \/ FileReadFails
    \/ AttemptReturns \/ AttemptThrows \/ WaitElapses
    \/ Settle
    \/ ClickEditName \/ TypeName \/ SaveName \/ CancelName
    \/ ClickEditToggle \/ ClickSave \/ ChangeEntry \/ AddRow \/ DeleteRow

SpecApp == InitApp /\ [][NextApp]_vars

\* every file read, every outbound call and every timer ends, and the
\* continuation of a settled promise runs
FairApp ==
    /\ WF_vars(FileReadSucceeds \/ FileReadFails)
    /\ WF_vars(AttemptReturns \/ AttemptThrows)
    /\ WF_vars(WaitElapses)
    /\ WF_vars(Settle)

\* the session without the editing of results, which is possible only while
\* no analysis runs and whose effects the start of an analysis discards
NextAnalysis ==
    \/ Drag \/ Drop \/ InputChange \/ PreviewLoaded \/ ClickClear \/ ClickAnalyze
    \/ FileReadSucceeds \/ FileReadFails
    \/ AttemptReturns \/ AttemptThrows \/ WaitElapses
    \/ Settle

SpecAnalysis == InitApp /\ [][NextAnalysis]_vars /\ FairApp


-----------------------------------------------------------------------------
(* The extraction client's claims (checked under SpecClient) *)

\* the error taxonomy, in the order the catch block tests the message; the
\* structure error of line 133 is the MalformedResponse kind
ErrorKind(msg) ==
    IF IsAuth(msg) THEN "AuthError"
    ELSE IF IsSafety(msg) THEN "SafetyBlocked"
    ELSE IF msg = StructureMsg THEN "MalformedResponse"
    ELSE IF IsTransient(msg) THEN "Transient"
    ELSE "Unknown"

FailedAs(i, kind) == trace[i].failed /\ ErrorKind(trace[i].msg) = kind

Rejected(msg) == pc = "done" /\ outcome = "rejected" /\ result = msg

RECURSIVE SumSeq(_)
SumSeq(q) == IF q = <<>> THEN 0 ELSE Head(q) + SumSeq(Tail(q))

\* C1: one invocation makes at most 3 outbound calls, numbered 0, 1, 2; a
\* Transient failure of attempt 0 or 1 is followed by the backoff wait, whose
\* only continuation is attempt n+1; a Transient failure of attempt 2 ends the
\* invocation rejected with the message of that last transient error.
C1_RetryBudget ==
    /\ calls <= 3
    /\ Len(trace) <= calls
    /\ \A i \in DOMAIN trace : trace[i].n = i - 1
    /\ pc = "waiting" => ENABLED WaitElapses
    /\ \A i \in DOMAIN trace :
         FailedAs(i, "Transient") =>
            IF trace[i].n < 2
            THEN \/ i = Len(trace) /\ pc = "waiting" /\ attempt = trace[i].n
                                   /\ outcome = "pending"
                 \/ i < Len(trace) /\ calls >= i + 1
                 \/ i = Len(trace) /\ pc = "calling" /\ attempt = trace[i].n + 1
                                   /\ calls = i + 1
            ELSE i = Len(trace) /\ calls = 3 /\ Rejected(trace[i].msg)

C1_Witness ==
    /\ Len(trace) = 3
    /\ \A i \in 1..3 : FailedAs(i, "Transient")
    /\ Rejected(trace[3].msg)
    /\ trace[3].msg # trace[2].msg

\* C2: an attempt that raises an AuthError, SafetyBlocked or MalformedResponse
\* error (a response without the entries field is one) is the last attempt: the
\* invocation is rejected with no further call and no wait after that attempt.
C2_FatalShortCircuit ==
    \A i \in DOMAIN trace :
        /\ ( trace[i].o.kind = "json"
             /\ Get(trace[i].o.value, "positiveEntries").t = "undefined" )
              => FailedAs(i, "MalformedResponse")
        /\ ( \E k \in {"AuthError", "SafetyBlocked", "MalformedResponse"} :
                FailedAs(i, k) )
              => /\ i = Len(trace)
                 /\ pc = "done" /\ outcome = "rejected"
                 /\ calls = i
                 /\ Len(waits) = i - 1

C2_Witness ==
    /\ Len(trace) = 1
    /\ FailedAs(1, "AuthError")
    /\ pc = "done" /\ calls = 1 /\ waits = <<>>

WellFormed(v) ==
    /\ v.t = "obj"
    /\ {"clientName", "positiveEntries"} \subseteq DOMAIN v.v
    /\ v.v["positiveEntries"].t = "arr"

C5_SuccessAfterTransients ==
    \A i \in DOMAIN trace :
        ( /\ \A j \in 1..(i - 1) : FailedAs(j, "Transient")
          /\ trace[i].o.kind = "json"
          /\ WellFormed(trace[i].o.value) )
        => /\ pc = "done"
           /\ outcome = "resolved"
           /\ result.t = "obj"
           /\ result.v["clientName"] = trace[i].o.value.v["clientName"]
           /\ result.v["positiveEntries"] = trace[i].o.value.v["positiveEntries"]

C5_Witness ==
    /\ Len(trace) = 3
    /\ FailedAs(1, "Transient") /\ FailedAs(2, "Transient")
    /\ outcome = "resolved"
    /\ result.v["positiveEntries"].v # <<>>

C7_ResponseValidation ==
    \A i \in DOMAIN trace :
        /\ ~ trace[i].failed
             <=> (trace[i].o.kind = "json" /\ WellFormed(trace[i].o.value))
        /\ ~ trace[i].failed => outcome = "resolved" /\ result = trace[i].o.value
        /\ (trace[i].o.kind = "json" /\ ~ WellFormed(trace[i].o.value))
             => trace[i].msg = StructureMsg /\ Rejected(StructureMsg)

C7_Witness ==
    /\ Len(trace) = 1
    /\ outcome = "resolved"
    /\ result.v["clientName"] = JStr(<<>>)
    /\ result.v["positiveEntries"] = JArr(<<>>)

\* the credential the invocation reads
OnlySpacesAndQuotes(s) == \A i \in DOMAIN s : IsSpace(s[i]) \/ IsQuote(s[i])

RejectedBeforeAnyCall(msg) ==
    Rejected(msg) /\ calls = 0 /\ waits = <<>> /\ trace = <<>>

EmptiedByCleaning(raw) ==
    \E a, b \in 0..Len(raw) :
        /\ a + b <= Len(raw)
        /\ Len(raw) - a - b <= 2
        /\ \A i \in DOMAIN raw :
             IF i <= a \/ i > Len(raw) - b THEN IsSpace(raw[i]) ELSE IsQuote(raw[i])

Mentions(msg, markers) == \E i \in DOMAIN msg : msg[i] \in markers

\* C21: the catch block tests the auth markers first, then SAFETY, then the
\* transient markers: on every attempt number an error whose message holds an
\* auth or a safety marker ends the invocation at once, without a wait, even
\* if the message also holds a transient marker, and the rejection carries
\* the fixed auth message (auth markers win over SAFETY) or the fixed safety
\* message, not the message of the error.
C21_ClassificationOrder ==
    \A i \in DOMAIN trace :
        LET msg == trace[i].msg
            auth == Mentions(msg, {"400", "API_KEY_INVALID", "INVALID_ARGUMENT"})
            safety == Mentions(msg, {"SAFETY"})
        IN (trace[i].failed /\ (auth \/ safety)) =>
              /\ i = Len(trace)
              /\ pc = "done" /\ outcome = "rejected"
              /\ calls = i
              /\ Len(waits) = i - 1
              /\ result = (IF auth THEN AuthMsg ELSE SafetyMsg)
              /\ result # msg

C21_Witness ==
    /\ Len(trace) = 3
    /\ trace[3].n = 2
    /\ trace[3].msg = <<"429", " ", "SAFETY">>
    /\ Rejected(SafetyMsg)
    /\ waits = <<1000, 2000>>

C21_WitnessAuthFirst ==
    /\ Len(trace) = 1
    /\ trace[1].msg = <<"SAFETY", " ", "INVALID_ARGUMENT">>
    /\ Rejected(AuthMsg)
    /\ waits = <<>>

-----------------------------------------------------------------------------
(* The aggregation engine's claims (checked under SpecAgg) *)

\* the pivot as the spec names it: rowTotals over the rows of the table,
\* columnTotals over the month columns
RowTotal(d) == analysis[d].total
RowCells(d) == analysis[d].cells

RECURSIVE SumRowTotals(_)
SumRowTotals(descs) ==
    IF descs = <<>> THEN 0 ELSE RowTotal(Head(descs)) + SumRowTotals(Tail(descs))

IsDigit(c) == c \in {"0", "1", "2", "3", "4", "5", "6", "7", "8", "9"}

AllDigits(s, n) == Len(s) = n /\ \A i \in DOMAIN s : IsDigit(s[i])

\* a year-month-day date: 4 digits, a month 01..12, 2 digits
WellFormedDate(date) ==
    LET parts == Split(date)
    IN /\ Len(parts) = 3
       /\ AllDigits(parts[1], 4)
       /\ AllDigits(parts[2], 2)
       /\ parts[2] \in { <<"0", c>> : c \in {"1", "2", "3", "4", "5", "6", "7", "8", "9"} }
                       \cup { <<"1", "0">>, <<"1", "1">>, <<"1", "2">> }
       /\ AllDigits(parts[3], 2)

\* C9: grandTotal equals the sum of the rowTotals and the sum of the
\* columnTotals, and each rowTotal equals the sum of its row's cells (stated
\* for lists in which every entry has a well-formed date and a description).
C9_TotalsAgree ==
    ( /\ rendered /\ report.generated
      /\ \A i \in DOMAIN entries :
            WellFormedDate(entries[i].date) /\ entries[i].description # <<>> ) =>
        /\ report.grandTotal = SumRowTotals(sortedDescriptions)
        /\ report.grandTotal = SumValues(monthlyTotals)
        /\ \A d \in DOMAIN analysis : RowTotal(d) = SumValues(RowCells(d))

Kept(e) == WellFormedDate(e.date) /\ e.description # <<>>

RECURSIVE SumWhere(_, _, _)
SumWhere(list, d, m) ==
    IF list = <<>> THEN 0
    ELSE (IF /\ Kept(Head(list))
             /\ (d = <<"*">> \/ Head(list).description = d)
             /\ (m = <<"*">> \/ MonthYear(Head(list).date) = m)
          THEN Head(list).amount ELSE 0)
         + SumWhere(Tail(list), d, m)

AnyKey == <<"*">>

\* C10: an entry whose date is not a well-formed year-month-day date or whose
\* description is empty adds no month key and no description and contributes
\* to no cell and no total, and is still counted in transactionCount (stated
\* for lists whose descriptions are ordinary keys).
C10_MalformedExcluded ==
    (rendered /\ \A i \in DOMAIN entries : entries[i].description \notin InheritedNames) =>
        LET kept == { entries[i] : i \in { j \in DOMAIN entries : Kept(entries[j]) } }
        IN /\ { monthlyTotals[i].key : i \in DOMAIN monthlyTotals }
                = { MonthYear(e.date) : e \in kept }
           /\ { sortedMonths[i] : i \in DOMAIN sortedMonths }
                = { MonthYear(e.date) : e \in kept }
           /\ DOMAIN analysis = { e.description : e \in kept }
           /\ \A i \in DOMAIN monthlyTotals :
                monthlyTotals[i].value = SumWhere(entries, AnyKey, monthlyTotals[i].key)
           /\ \A d \in DOMAIN analysis :
                /\ RowTotal(d) = SumWhere(entries, d, AnyKey)
                /\ \A i \in DOMAIN RowCells(d) :
                     RowCells(d)[i].value = SumWhere(entries, d, RowCells(d)[i].key)
           /\ report.generated =>
                /\ report.grandTotal = SumWhere(entries, AnyKey, AnyKey)
                /\ report.transactionCount = Len(entries)

\* the YYYY-MM prefix of a well-formed date
Prefix7(date) == SubSeq(date, 1, 7)

AllKept == \A i \in DOMAIN entries : Kept(entries[i])

RECURSIVE SumOfCell(_, _, _)
SumOfCell(list, d, m) ==
    IF list = <<>> THEN 0
    ELSE (IF Head(list).description = d /\ Prefix7(Head(list).date) = m
          THEN Head(list).amount ELSE 0)
         + SumOfCell(Tail(list), d, m)

\* C11: every entry with a well-formed date and a non-empty description
\* contributes to exactly one cell, the one keyed by its exact description and
\* the YYYY-MM prefix of its date, and every cell holds the sum of the amounts
\* of exactly the entries with its description and month key (stated for lists
\* in which every entry has a well-formed date and a description).
C11_OneCellPerEntry ==
    (rendered /\ AllKept) =>
        /\ \A i \in DOMAIN entries :
              LET d == entries[i].description
                  m == Prefix7(entries[i].date)
              IN /\ d \in DOMAIN analysis
                 /\ \E k \in DOMAIN RowCells(d) :
                       /\ RowCells(d)[k].key = m
                       /\ RowCells(d)[k].value = SumOfCell(entries, d, m)
        /\ \A d \in DOMAIN analysis : \A k \in DOMAIN RowCells(d) :
              /\ RowCells(d)[k].value = SumOfCell(entries, d, RowCells(d)[k].key)
              /\ \E i \in DOMAIN entries :
                    /\ entries[i].description = d
                    /\ Prefix7(entries[i].date) = RowCells(d)[k].key
              /\ \A j \in DOMAIN RowCells(d) :
                    RowCells(d)[j].key = RowCells(d)[k].key => j = k

\* the first index of monthlyTotals that holds the greatest column total
FirstMax(totals) ==
    CHOOSE i \in DOMAIN totals :
        /\ \A j \in DOMAIN totals : totals[j].value <= totals[i].value
        /\ \A j \in DOMAIN totals : totals[j].value = totals[i].value => i <= j

\* C12: bestMonth is the month key with the greatest columnTotal whatever the
\* signs of the amounts, is "none" only when there is no month key, and on a
\* tie is the month met first in the iteration order of the month keys.
C12_BestMonth ==
    (rendered /\ report.generated) =>
        IF monthlyTotals = <<>>
        THEN report.bestMonth = NoBest
        ELSE /\ report.bestMonth.key = monthlyTotals[FirstMax(monthlyTotals)].key
             /\ report.bestMonth.value = monthlyTotals[FirstMax(monthlyTotals)].value

\* C13: the report's transactionCount is the length of the original list,
\* the entries left out of the aggregation included.
C13_TransactionCount ==
    report.generated => report.transactionCount = Len(entries)

C13_Witness ==
    /\ report.generated
    /\ Len(entries) = 2
    /\ report.transactionCount = 2
    /\ \E i \in DOMAIN entries : ~ Aggregated(entries[i])
    /\ \E i \in DOMAIN entries : Aggregated(entries[i])

\* C14: a (description, month) pair is shown as the dash exactly when no
\* aggregated entry has that description and month; a pair whose amounts sum
\* to zero is a key of the row and is shown as a zero amount (stated for
\* lists whose descriptions are ordinary keys).
C14_EmptyCellIsDash ==
    (rendered /\ \A i \in DOMAIN entries : entries[i].description \notin InheritedNames) =>
        \A d \in DOMAIN analysis : \A x \in DOMAIN sortedMonths :
            LET m == sortedMonths[x]
                has == \E i \in DOMAIN entries :
                          /\ Aggregated(entries[i])
                          /\ entries[i].description = d
                          /\ MonthYear(entries[i].date) = m
            IN /\ has <=> IndexOf(RowCells(d), m) # 0
               /\ (DisplayCell(d, m) = Dash) <=> ~ has
               /\ (has /\ RowCells(d)[IndexOf(RowCells(d), m)].value = 0) =>
                     DisplayCell(d, m) = Currency(0)

StrictlyAscending(list) ==
    \A i \in DOMAIN list : \A j \in DOMAIN list : i < j => StrLess(list[i], list[j])

\* C15: sortedMonths holds exactly the distinct month keys of the aggregated
\* entries in strictly ascending order, and sortedDescriptions exactly their
\* distinct descriptions in strictly ascending order of code units (stated for
\* lists in which every entry has a well-formed date and a description).
C15_SortedKeys ==
    (rendered /\ AllKept) =>
        /\ { sortedMonths[i] : i \in DOMAIN sortedMonths }
              = { Prefix7(entries[i].date) : i \in DOMAIN entries }
        /\ StrictlyAscending(sortedMonths)
        /\ { sortedDescriptions[i] : i \in DOMAIN sortedDescriptions }
              = { entries[i].description : i \in DOMAIN entries }
        /\ StrictlyAscending(sortedDescriptions)

\* C16: monthlyAverage is grandTotal divided by the number of distinct month
\* keys when there is at least one, and 0 otherwise.
C16_MonthlyAverage ==
    (rendered /\ report.generated) =>
        LET months == { sortedMonths[i] : i \in DOMAIN sortedMonths }
        IN IF Cardinality(months) >= 1
           THEN /\ report.monthlyAverage.num = report.grandTotal
                /\ report.monthlyAverage.den = Cardinality(months)
           ELSE report.monthlyAverage = Zero

C16_Witness ==
    /\ report.generated
    /\ Len(sortedMonths) = 2
    /\ report.grandTotal = 1000
    /\ report.monthlyAverage = [num |-> 1000, den |-> 2]

C16_WitnessNoMonth ==
    /\ report.generated
    /\ entries # <<>>
    /\ sortedMonths = <<>>
    /\ report.monthlyAverage = Zero

\* C17: the aggregation is pure: aggregating again yields the results it
\* yielded before, no step writes state that outlives the aggregation, and
\* the input list is left as it was by the aggregation and by the report.
C17_Pure ==
    [][ /\ entries' = entries
        /\ inherited' = inherited
        /\ rendered =>
              /\ analysis' = analysis
              /\ monthlyTotals' = monthlyTotals
              /\ sortedMonths' = sortedMonths
              /\ sortedDescriptions' = sortedDescriptions ]_vars

\* the key-value pairs of an object, whatever their insertion order
PairSet(pairs) == { <<pairs[i].key, pairs[i].value>> : i \in DOMAIN pairs }

\* the list read in the order p, a permutation of its indices
Permuted(list, p) == [i \in DOMAIN list |-> list[p[i]]]

\* exactly one month holds the greatest column total
SingleMax(totals) ==
    \E i \in DOMAIN totals :
        \A j \in DOMAIN totals : j # i => totals[j].value < totals[i].value

C25_WitnessTie ==
    /\ rendered /\ report.generated
    /\ Len(monthlyTotals) = 2
    /\ monthlyTotals[1].value = 500 /\ monthlyTotals[2].value = 500
    /\ Len(entries) = 2
    /\ report.bestMonth.key = MonthYear(entries[1].date)
    /\ BestOf(NoBest, ForEach(EmptyAcc, <<entries[2], entries[1]>>).monthlyTotals).key
          # report.bestMonth.key

-----------------------------------------------------------------------------
(* The session's claims (checked under SpecApp) *)

\* C18: at most one extraction request is in flight; while an analysis is
\* pending (isLoading) no second handleAnalyzeClick and no second
\* analyzeStatement call starts, and the file is neither cleared nor replaced.
C18_OneInFlight ==
    [][ /\ inFlight' <= 1
        /\ app'.isLoading <=> inFlight' = 1
        /\ app.isLoading => /\ app'.file = app.file
                            /\ inFlight' <= inFlight
        /\ (pc = "idle" /\ pc' # "idle") => app.isLoading /\ inFlight = 1 ]_vars

C18_Witness ==
    /\ app.isLoading
    /\ inFlight = 1
    /\ pc = "waiting"
    /\ calls = 2
    /\ ~ ENABLED ClickAnalyze
    /\ ~ ENABLED ClickClear
    /\ ~ ENABLED InputChange
    /\ ~ ENABLED Drop

IsImageOrPdf(type) ==
    \/ Len(type) >= 6 /\ SubSeq(type, 1, 6) = <<"i", "m", "a", "g", "e", "/">>
    \/ type = Type_pdf

\* C19: every document that reaches analyzeStatement has a media type that
\* is image/* or application/pdf, whether its file was dropped or chosen in
\* the file input.
C19_MediaType ==
    /\ mimeType # JNull => IsImageOrPdf(mimeType.v)
    /\ task.phase # "none" => IsImageOrPdf(task.file.type)

Emptied(s) == s.positiveEntries = <<>> /\ s.extractedClientName = JStr(<<>>)

\* C20: selecting a file, clearing the file and starting an analysis each
\* leave the held list and the held name empty; the held list changes only by
\* such a reset, by a successful extraction or by saving the draft; and a
\* non-empty held list belongs to the selected file and to the last
\* extraction, nothing having been selected, cleared or started since.
C20_HeldListIsCurrent ==
    [][ /\ app'.file # app.file => Emptied(app')
        /\ inFlight' > inFlight => Emptied(app')
        /\ app'.positiveEntries # app.positiveEntries =>
              \/ app'.positiveEntries = <<>>
              \/ /\ pc = "done" /\ outcome = "resolved"
                 /\ app'.positiveEntries = Get(result, "positiveEntries").v
                 /\ app'.file = task.file
              \/ /\ isEditing
                 /\ app'.positiveEntries = editedEntries
        /\ app'.positiveEntries # <<>> => current' /\ app'.file # JNull ]_vars

C20_Witness ==
    /\ app.positiveEntries # <<>>
    /\ app.positiveEntries \notin EntryLists
    /\ ~ isEditing
    /\ edits > 0
    /\ current

\* C22: an error message and a non-empty held entry list never coexist:
\* whenever error is set the held list is empty, and whenever the held list is
\* non-empty error is null.
C22_ErrorExcludesEntries ==
    /\ app.error # JNull => app.positiveEntries = <<>>
    /\ app.positiveEntries # <<>> => app.error = JNull

C22_Witness ==
    /\ app.error # JNull
    /\ app.error # JStr(ReadEmptyMsg)
    /\ app.error # JStr(ReadErrorMsg)
    /\ ~ app.isLoading
    /\ app.file # JNull
    /\ app.positiveEntries = <<>>

C22_WitnessEntries ==
    /\ app.positiveEntries # <<>>
    /\ app.positiveEntries \notin EntryLists
    /\ app.extractedClientName = JStr(<<"B", "I", "A">>)
    /\ app.error = JNull

\* C23: table edits are staged: a change of the draft made while editing
\* leaves App's state, the held list included, as it was; while the table
\* stays on screen the held list is replaced only by Save, and by the draft;
\* leaving the editing mode without a change of the held list (Cancel) sets
\* the draft to the held list; and outside the editing mode the draft equals
\* the held list, so editing begins from it and Cancel returns to it.
C23_StagedEdits ==
    [][ /\ (isEditing /\ isEditing' /\ editedEntries' # editedEntries) => app' = app
        /\ ( /\ ResultsShown(app) /\ ResultsShown(app')
             /\ app'.positiveEntries # app.positiveEntries ) =>
              /\ isEditing /\ ~ isEditing'
              /\ app'.positiveEntries = editedEntries
        /\ ( /\ isEditing /\ ~ isEditing' /\ ResultsShown(app')
             /\ app'.positiveEntries = app.positiveEntries ) =>
              editedEntries' = app.positiveEntries
        /\ (ResultsShown(app') /\ ~ isEditing') =>
              editedEntries' = app'.positiveEntries ]_vars

C23_Witness ==
    /\ ResultsShown(app)
    /\ app.positiveEntries = <<Entry(Str_PIX, 500, Date_Jan10)>>
    /\ edits >= 1
    /\ ~ isEditing
    /\ editedEntries = app.positiveEntries

\* C24: every analysis request settles when every file read and every
\* outbound call settles: analyzeStatement ends after at most 3 calls and 2
\* waits, isLoading, true since the start, returns to false, and it does so
\* with the extracted entries and name stored and no error (success) or with
\* an error message stored and the entry list empty (failure).
C24_AnalysisSettles ==
    /\ app.isLoading ~> ~ app.isLoading
    /\ (pc \in {"calling", "waiting"}) ~> (pc = "done")
    /\ [](calls <= 3 /\ Len(waits) <= 2)
    /\ [](inFlight > 0 => app.isLoading)
    /\ [][ (app.isLoading /\ ~ app'.isLoading) =>
              \/ /\ pc = "done" /\ outcome = "resolved"
                 /\ app'.positiveEntries = Get(result, "positiveEntries").v
                 /\ app'.extractedClientName = Get(result, "clientName")
                 /\ app'.error = JNull
              \/ /\ task.phase = "reading" \/ (pc = "done" /\ outcome = "rejected")
                 /\ app'.error # JNull
                 /\ app'.positiveEntries = <<>> ]_vars

C24_Witness ==
    /\ app.isLoading
    /\ task.phase = "awaiting"
    /\ pc = "done"
    /\ outcome = "rejected"
    /\ calls = 3
    /\ waits = <<1000, 2000>>

====
